---- MODULE Spec2Model ----
(***************************************************************************)
(* homer: a command line wrapper that supervises terraform invocations.    *)
(*                                                                         *)
(* The model follows one run of main() (src/main.py) from the point where  *)
(* its own SIGINT/SIGTERM handler is installed.  The control thread is     *)
(* described by two program counters: pc is the position in main and in    *)
(* the workflows of src/libs/core.py, rc is the position inside            *)
(* TerraformProcessManager.run_command ("idle" outside a call, "end" when  *)
(* the call has returned or raised and its caller has not yet looked at    *)
(* the outcome).  Operating-system signals are delivered between any two   *)
(* statements of the control thread; a Python-level handler runs to        *)
(* completion before the interrupted statement sequence continues.         *)
(***************************************************************************)
EXTENDS Integers, Sequences, FiniteSets, TLC

(* ------------------------------ bounds ------------------------------- *)

\* Number of signals the operating system delivers during one run.
MaxSignals == 3

\* Longest list of resource_changes in a rendered plan.
MaxEntries == 3

(* --------------------------- fixed values ---------------------------- *)

None == "<None>"

\* The two handlers a signal can be routed to.
MainHandler == "main.signal_handler"
SupervisorHandler == "TerraformProcessManager._signal_handler"

Signals == {"SIGINT", "SIGTERM"}

TEMP_PLAN_FILENAME == "tmp.tfplan"

\* The directory made by tempfile.mkdtemp(prefix="make-cli-").
TempDir == "/tmp/make-cli-x"

\* Exit statuses a child can report on its own.
ExitCodes == {0, 1, 2}

\* Exit status of a child that was ended by SIGKILL.
KilledCode == 0 - 9

\* Arguments given after "--" on the command line.
ExtraArgsSet == {<<>>, <<"-var=x">>}

\* What the dispatch table of CLIHandler can be asked to do.
Invocations ==
    { [action |-> a, interactive |-> FALSE] : a \in {"init", "plan", "apply", "destroy", "unlock", "invalid"} }
    \cup { [action |-> a, interactive |-> TRUE] : a \in {"plan", "destroy"} }

VARIABLES
    pc,               \* position of the control thread in main / the workflows
    rc,               \* position of the control thread inside run_command
    invocation,       \* the command line: action and -i flag
    extra_args,       \* the arguments after "--"
    cli,              \* main's local variable cli (None until CLIHandler() returned)
    temp_dir_exists,  \* TempFileManager.temp_dir is present on disk
    cleanups,         \* number of times CLIHandler.cleanup has run
    exit_status,      \* the status the process exits with (None while running)
    exc,              \* the exception that reached main's try statement
    success_reported, \* main reported "Operacion completada con exito"
    exit_code,        \* main's local variable exit_code
    sigint_handler,   \* handler currently installed for SIGINT
    sigterm_handler,  \* handler currently installed for SIGTERM
    original_sigint,  \* run_command's local original_sigint
    original_sigterm, \* run_command's local original_sigterm
    interrupt_count,  \* TerraformProcessManager.interrupt_count
    current_process,  \* TerraformProcessManager.current_process
    command,          \* argument vector of the call in progress
    capture,          \* capture flag of the call in progress
    child,            \* the child process: "none", "running", "exited"
    child_code,       \* exit status of the exited child
    returncode,       \* run_command's local returncode
    stdout,           \* run_command's local stdout
    stderr,           \* run_command's local stderr
    result,           \* how the call ended
    error,            \* the CommandExecutionError raised by the call
    sent,             \* signals the handler sent to the child during this call
    swallowed,        \* ProcessLookupError instances caught by the handler in this call
    handler_raised,   \* an exception left _signal_handler
    nsignals,         \* signals delivered so far
    calls,            \* argument vectors of all supervised calls, in order
    was_interrupted,  \* some supervised call raised KeyboardInterrupt
    plan_data,        \* the parsed output of terraform show -json
    changes,          \* the list computed by _get_plan_changes
    choice,           \* the operator's answer to the selection prompt, normalised
    index,            \* the parsed numeric selection
    prompts,          \* the prompts answered so far, with the line typed
    system_path,      \* the executables of SystemPaths' kind on the PATH
    missing,          \* _check_dependencies' local list missing
    caught,           \* TerraformUnlocker.run's e, the error it caught
    lock_id,          \* TerraformUnlocker.run's local lock_id
    entry_signals,    \* signals delivered before the call in progress began
    entry_count,      \* interrupt_count as the call in progress found it
    running_hits      \* signals handled in this call while its child was running

vars == << pc, rc, invocation, extra_args, cli, temp_dir_exists, cleanups, exit_status,
           exc, success_reported, exit_code, sigint_handler, sigterm_handler, original_sigint,
           original_sigterm, interrupt_count, current_process, command, capture,
           child, child_code, returncode, stdout, stderr, result, error, sent,
           swallowed, handler_raised, nsignals, calls, was_interrupted, plan_data,
           changes,
           choice, index, prompts, system_path, missing, caught, lock_id, entry_signals,
           entry_count, running_hits >>

\* Groups of variables, for UNCHANGED.
mainVars == << invocation, extra_args, cli, temp_dir_exists, cleanups, exit_status,
               exc, success_reported, exit_code >>
sigVars == << sigint_handler, sigterm_handler, original_sigint, original_sigterm >>
procVars == << interrupt_count, current_process, child, child_code, sent, swallowed,
               handler_raised >>
callVars == << command, capture, returncode, stdout, stderr, result, error >>
localVars == << system_path, missing, caught, lock_id >>
flowVars == << plan_data, changes, choice, index, prompts, localVars >>
callLog == << calls, entry_signals, entry_count, running_hits >>

(* ------------------- captured output of the child -------------------- *)

\* Texts "terraform version -json" can write to its standard output.
VersionTexts == {"version:1.5.0", "version:1.6.0", "version:nokey", "garbage"}

\* Texts "terraform show -json <plan>" can write to its standard output.
PlanTexts == {"plan:empty", "plan:noop", "plan:ab", "plan:nokey", "garbage"}

\* What communicate() can hand back as standard output for a child that
\* ended with the given status.
CapturedStdout(argv, code) ==
    IF code # 0 THEN {""}
    ELSE IF argv[2] = "version" THEN VersionTexts
    ELSE PlanTexts

\* What communicate() can hand back as standard error.
CapturedStderr(code) == IF code # 0 THEN {"Error: terraform failed"} ELSE {""}

(* --------------------------- exceptions.py --------------------------- *)

\* CommandExecutionError.__init__: the fields are the arguments as passed.
CommandExecutionError(return_code, out, err) ==
    [return_code |-> return_code, stdout |-> out, stderr |-> err]

NoError == [return_code |-> 0, stdout |-> None, stderr |-> None]

(* ------------------ TerraformProcessManager.run_command --------------- *)

\* Entry into run_command(command, cwd, capture): the frame is created, no
\* statement has run yet.
BeginCall(argv, cap) ==
    /\ rc = "idle"
    /\ rc' = "line45"
    /\ command' = argv
    /\ capture' = cap
    /\ calls' = Append(calls, argv)
    /\ entry_signals' = nsignals
    /\ entry_count' = interrupt_count
    /\ running_hits' = 0
    /\ returncode' = 0
    /\ stdout' = None
    /\ stderr' = None
    /\ result' = "none"
    /\ error' = NoError
    /\ child' = "none"
    /\ child_code' = 0
    /\ sent' = <<>>
    /\ swallowed' = 0
    /\ UNCHANGED << interrupt_count, current_process, handler_raised >>
    /\ UNCHANGED << sigVars, nsignals, was_interrupted >>

\* original_sigint = signal.signal(signal.SIGINT, self._signal_handler)
Line45 ==
    /\ rc = "line45"
    /\ original_sigint' = sigint_handler
    /\ sigint_handler' = SupervisorHandler
    /\ rc' = "line46"
    /\ UNCHANGED << pc, mainVars, sigterm_handler, original_sigterm, procVars, callVars,
                    nsignals, callLog, was_interrupted, flowVars >>

\* original_sigterm = signal.signal(signal.SIGTERM, self._signal_handler)
Line46 ==
    /\ rc = "line46"
    /\ original_sigterm' = sigterm_handler
    /\ sigterm_handler' = SupervisorHandler
    /\ rc' = "line47"
    /\ UNCHANGED << pc, mainVars, sigint_handler, original_sigint, procVars, callVars,
                    nsignals, callLog, was_interrupted, flowVars >>

\* Variant: the counter is left as the previous call left it.
Line47_NoReset ==
    /\ rc = "line47"
    /\ rc' = "line51"
    /\ UNCHANGED << pc, mainVars, sigVars, procVars, callVars, nsignals, callLog,
                    was_interrupted, flowVars >>

\* self.interrupt_count = 0
Line47 ==
    /\ rc = "line47"
    /\ interrupt_count' = 0
    /\ rc' = "line51"
    /\ UNCHANGED << pc, mainVars, sigVars, current_process, child, child_code, sent,
                    swallowed, handler_raised, callVars, nsignals, callLog,
                    was_interrupted, flowVars >>

\* subprocess.Popen(...) returns: the child runs in a session of its own
\* (preexec_fn = os.setsid); the attribute is not assigned yet.
PopenLaunch ==
    /\ rc = "line51"
    /\ child' = "running"
    /\ rc' = "line51_store"
    /\ UNCHANGED << pc, mainVars, sigVars, interrupt_count, current_process, child_code,
                    sent, swallowed, handler_raised, callVars, nsignals, callLog,
                    was_interrupted, flowVars >>

\* subprocess.Popen(...) raises FileNotFoundError (no terraform executable):
\* control passes to the finally clause.
PopenFails ==
    /\ rc = "line51"
    /\ result' = "LaunchError"
    /\ rc' = "line65"
    /\ UNCHANGED << pc, mainVars, sigVars, procVars, command, capture, returncode,
                    stdout, stderr, error, nsignals, callLog, was_interrupted, flowVars >>

\* self.current_process = <the Popen object>
Line51Store ==
    /\ rc = "line51_store"
    /\ current_process' = "child"
    /\ rc' = "line55"
    /\ UNCHANGED << pc, mainVars, sigVars, interrupt_count, child, child_code, sent,
                    swallowed, handler_raised, callVars, nsignals, callLog,
                    was_interrupted, flowVars >>

\* stdout, stderr = self.current_process.communicate()
\* returncode = self.current_process.returncode
\* communicate() returns once the child has exited; without capture the
\* streams are inherited and both values are None.
Communicate ==
    /\ rc = "line55"
    /\ child = "exited"
    /\ returncode' = child_code
    /\ IF capture
         THEN /\ stdout' \in CapturedStdout(command, child_code)
              /\ stderr' \in CapturedStderr(child_code)
         ELSE /\ stdout' = None
              /\ stderr' = None
    /\ rc' = "line58"
    /\ UNCHANGED << pc, mainVars, sigVars, procVars, command, capture, result, error,
                    nsignals, callLog, was_interrupted, flowVars >>

\* Variant: only exit status 1 counts as a failure.
CommandFailedOnlyOne(code) == code = 1

\* The condition of "if returncode != 0".
CommandFailed(code) == code # 0

\* if self.interrupt_count > 0: raise KeyboardInterrupt(...)
\* if returncode != 0: raise CommandExecutionError(..., returncode, stdout, stderr)
\* return subprocess.CompletedProcess(...)
Line58 ==
    /\ rc = "line58"
    /\ IF interrupt_count > 0
         THEN /\ result' = "Interrupted"
              /\ was_interrupted' = TRUE
              /\ error' = error
         ELSE IF CommandFailed(returncode)
         THEN /\ result' = "CommandFailed"
              /\ error' = CommandExecutionError(returncode, stdout, stderr)
              /\ UNCHANGED was_interrupted
         ELSE /\ result' = "Success"
              /\ UNCHANGED << error, was_interrupted >>
    /\ rc' = "line65"
    /\ UNCHANGED << pc, mainVars, sigVars, procVars, command, capture, returncode,
                    stdout, stderr, nsignals, callLog, flowVars >>

\* finally: self.current_process = None
Line65 ==
    /\ rc = "line65"
    /\ current_process' = None
    /\ rc' = "line66"
    /\ UNCHANGED << pc, mainVars, sigVars, interrupt_count, child, child_code, sent,
                    swallowed, handler_raised, callVars, nsignals, callLog,
                    was_interrupted, flowVars >>

\* signal.signal(signal.SIGINT, original_sigint)
Line66 ==
    /\ rc = "line66"
    /\ sigint_handler' = original_sigint
    /\ rc' = "line67"
    /\ UNCHANGED << pc, mainVars, sigterm_handler, original_sigint, original_sigterm,
                    procVars, callVars, nsignals, callLog, was_interrupted, flowVars >>

\* Variant: the SIGTERM handler is not put back.
Line67_NotRestored ==
    /\ rc = "line67"
    /\ rc' = "end"
    /\ UNCHANGED << pc, mainVars, sigVars, procVars, callVars, nsignals, callLog,
                    was_interrupted, flowVars >>

\* signal.signal(signal.SIGTERM, original_sigterm); the call returns or raises.
Line67 ==
    /\ rc = "line67"
    /\ sigterm_handler' = original_sigterm
    /\ rc' = "end"
    /\ UNCHANGED << pc, mainVars, sigint_handler, original_sigint, original_sigterm,
                    procVars, callVars, nsignals, callLog, was_interrupted, flowVars >>

(* ----------------------------- the child ------------------------------ *)

\* A SIGKILL has been delivered to the child.
Killed == \E i \in 1..Len(sent) : sent[i].sig = "SIGKILL"

\* The child process ends.  A killed child reports the kill; any other child
\* (also one that received the forwarded SIGINT) picks its own status.
ChildExit ==
    /\ child = "running"
    /\ child' = "exited"
    /\ child_code' \in (IF Killed THEN {KilledCode} ELSE ExitCodes)
    /\ UNCHANGED << pc, rc, mainVars, sigVars, interrupt_count, current_process, sent,
                    swallowed, handler_raised, callVars, nsignals, callLog,
                    was_interrupted, flowVars >>

(* --------------- TerraformProcessManager._signal_handler --------------- *)

Handler(sig) == IF sig = "SIGINT" THEN sigint_handler ELSE sigterm_handler

\* Variant: the kill is sent from the third interrupt on.
EscalationFromThird(count) ==
    IF count <= 2 THEN [sig |-> "SIGINT", to |-> "group"]
    ELSE [sig |-> "SIGKILL", to |-> "process"]

\* The branch taken on the value of interrupt_count:
\* "if self.interrupt_count == 1" forwards SIGINT to the process group of
\* the child, "elif self.interrupt_count >= 2" kills the child.
Escalation(count) ==
    IF count = 1 THEN [sig |-> "SIGINT", to |-> "group"]
    ELSE IF count >= 2 THEN [sig |-> "SIGKILL", to |-> "process"]
    ELSE [sig |-> "nothing", to |-> "nobody"]

\* "except ProcessLookupError: pass" around both sends.
ProcessLookupErrorCaught == TRUE

\* Variant: only a missing process reference ends the handler early.
NothingToSignalUnlessLaunched(proc, ch) == proc = None

\* "if not self.current_process or self.current_process.poll() is not
\* None: return": there is no child, or the child has exited.
NothingToSignal(proc, ch) == proc = None \/ ch # "running"

\* A signal arrives while _signal_handler is installed for it.  The child
\* can end between poll() and the send; the send then fails with
\* ProcessLookupError.
SupervisorSignal(sig) ==
    /\ nsignals < MaxSignals
    /\ pc # "exited"
    /\ Handler(sig) = SupervisorHandler
    /\ nsignals' = nsignals + 1
    /\ interrupt_count' = interrupt_count + 1
    /\ IF NothingToSignal(current_process, child)
         THEN UNCHANGED << child, child_code, sent, swallowed, handler_raised >>
         ELSE \E gone \in BOOLEAN :
                IF gone
                  THEN /\ child' = "exited"
                       /\ child_code' \in (IF Killed THEN {KilledCode} ELSE ExitCodes)
                       /\ sent' = sent
                       /\ IF ProcessLookupErrorCaught
                            THEN swallowed' = swallowed + 1 /\ UNCHANGED handler_raised
                            ELSE handler_raised' = TRUE /\ UNCHANGED swallowed
                  ELSE /\ sent' = Append(sent, [n |-> interrupt_count'] @@ Escalation(interrupt_count'))
                       /\ UNCHANGED << child, child_code, swallowed, handler_raised >>
    /\ running_hits' = IF child = "running" /\ child' = "running"
                         THEN running_hits + 1 ELSE running_hits
    /\ UNCHANGED << pc, rc, mainVars, sigVars, current_process, callVars, calls,
                    entry_signals, entry_count, was_interrupted, flowVars >>

(* ------------------------------- main.py ------------------------------- *)

\* CLIHandler.cleanup -> TempFileManager.cleanup, guarded by "if cli:".
CleanupIfCli ==
    IF cli # None
      THEN cleanups' = cleanups + 1 /\ temp_dir_exists' = FALSE
      ELSE UNCHANGED << cleanups, temp_dir_exists >>

\* main.signal_handler: clean up and sys.exit(130).  The SystemExit leaves
\* every frame of the control thread (no except clause on the way names it);
\* it skips the rest of a finally clause it is raised in.
MainSignal(sig) ==
    /\ nsignals < MaxSignals
    /\ pc # "exited"
    /\ Handler(sig) = MainHandler
    /\ nsignals' = nsignals + 1
    /\ CleanupIfCli
    /\ exc' = "SystemExit(130)"
    /\ IF pc = "main_finally"
         THEN pc' = "exited" /\ exit_status' = 130
         ELSE pc' = "main_finally" /\ UNCHANGED exit_status
    /\ rc' = "idle"
    /\ UNCHANGED << invocation, extra_args, cli, success_reported, exit_code, sigVars,
                    procVars, callVars, callLog, was_interrupted, flowVars >>

\* The except clauses of main: KeyboardInterrupt gives 130, every other
\* exception class gives 1.
ExitCodeFor(e) == IF e = "KeyboardInterrupt" THEN 130 ELSE 1

\* An exception reaches main's try statement and is handled there.
Raise(e) ==
    /\ exc' = e
    /\ exit_code' = ExitCodeFor(e)
    /\ pc' = "main_finally"
    /\ UNCHANGED << success_reported, exit_status >>

\* cli.run returns: main reports success and falls into the finally clause.
Return ==
    /\ pc' = "main_finally"
    /\ success_reported' = TRUE
    /\ UNCHANGED << exc, exit_code, exit_status >>

\* The exception class run_command raises for an outcome.
ExcOf(r) ==
    CASE r = "Interrupted" -> "KeyboardInterrupt"
      [] r = "CommandFailed" -> "CommandExecutionError"
      [] r = "LaunchError" -> "FileNotFoundError"

\* The status carried by a SystemExit on its way out of main.
SystemExitCode(e) == IF e = "SystemExit(130)" THEN 130 ELSE 1

\* finally: if cli: cli.cleanup(); then "return exit_code" and
\* sys.exit(main()), or the SystemExit in flight ends the process.
MainFinally ==
    /\ pc = "main_finally"
    /\ rc = "idle"
    /\ CleanupIfCli
    /\ exit_status' = IF exc \in {"SystemExit(130)", "SystemExit(1)"}
                        THEN SystemExitCode(exc) ELSE exit_code
    /\ pc' = "exited"
    /\ UNCHANGED << rc, invocation, extra_args, cli, exc, success_reported, exit_code,
                    sigVars, procVars, callVars, nsignals, callLog, was_interrupted,
                    flowVars >>

\* project_root = find_project_root(); CLIHandler.__init__ up to
\* self._check_terraform_version(): the temporary directory is made.
Main41 ==
    /\ pc = "main41"
    /\ \/ /\ Raise("FileNotFoundError")
          /\ UNCHANGED temp_dir_exists
       \/ /\ temp_dir_exists' = TRUE
          /\ pc' = "check_version"
          /\ UNCHANGED << exc, exit_code, success_reported, exit_status >>
    /\ UNCHANGED << rc, invocation, extra_args, cli, cleanups, sigVars, procVars,
                    callVars, nsignals, callLog, was_interrupted, flowVars >>

\* The version named by .terraform-version, when there is such a file.
RequiredVersion == "1.5.0"

\* _check_terraform_version: without a .terraform-version file there is
\* nothing to compare and CLIHandler() returns.
CheckVersion ==
    /\ pc = "check_version"
    /\ \E pinned \in BOOLEAN :
         IF pinned THEN pc' = "get_current_version" /\ UNCHANGED cli
         ELSE pc' = "cli_run" /\ cli' = "cli"
    /\ UNCHANGED << rc, invocation, extra_args, temp_dir_exists, cleanups, exit_status,
                    exc, success_reported, exit_code, sigVars, procVars, callVars,
                    nsignals, callLog, was_interrupted, flowVars >>

(* ------------------------- structured documents ------------------------ *)

\* dict.get(key, default)
Get(d, key, default) == IF key \in DOMAIN d THEN d[key] ELSE default

EmptyDict == <<>>

\* Entries of the resource_changes list of a rendered plan.
EntryA == [address |-> "a", change |-> [actions |-> <<"create">>]]
EntryB == [address |-> "b", change |-> [actions |-> <<"delete">>]]
EntryNoop == [address |-> "n", change |-> [actions |-> <<"no-op">>]]
EntryReplace == [address |-> "r", change |-> [actions |-> <<"delete", "create">>]]
EntryMixed == [address |-> "m", change |-> [actions |-> <<"no-op", "create">>]]
EntryBare == [mode |-> "managed"]

\* json.loads succeeds on the text.
Parseable(text) == text \notin {"", "garbage"}

\* json.loads(text) for the texts a child writes in this model.
JsonLoads(text) ==
    CASE text = "version:1.5.0" -> [terraform_version |-> "1.5.0"]
      [] text = "version:1.6.0" -> [terraform_version |-> "1.6.0"]
      [] text = "version:nokey" -> [platform |-> "linux_amd64"]
      [] text = "plan:empty" -> [resource_changes |-> <<>>]
      [] text = "plan:noop" -> [resource_changes |-> <<EntryNoop>>]
      [] text = "plan:ab" -> [resource_changes |-> <<EntryA, EntryB>>]
      [] text = "plan:nokey" -> [format_version |-> "1.2"]

(* --------------- TerraformManager.get_current_version ----------------- *)

GetCurrentVersionCall ==
    /\ pc = "get_current_version"
    /\ BeginCall(<<"terraform", "version", "-json">>, TRUE)
    /\ UNCHANGED << pc, mainVars, flowVars >>

\* The value get_current_version returns for a call that ended with the
\* given outcome: CommandExecutionError, FileNotFoundError and
\* json.JSONDecodeError give None.
CurrentVersion(r, text) ==
    IF r = "Success" /\ Parseable(text)
      THEN Get(JsonLoads(text), "terraform_version", None)
      ELSE None

\* The rest of get_current_version and of _check_terraform_version, then
\* the rest of CLIHandler.__init__ and the assignment to main's cli.
AfterGetCurrentVersion ==
    /\ pc = "get_current_version"
    /\ rc = "end"
    /\ rc' = "idle"
    /\ IF result = "Interrupted"
         THEN Raise("KeyboardInterrupt") /\ UNCHANGED cli
         ELSE LET current_version == CurrentVersion(result, stdout) IN
              IF current_version # None /\ current_version # RequiredVersion
                THEN /\ exc' = "SystemExit(1)"
                     /\ pc' = "main_finally"
                     /\ UNCHANGED << cli, exit_code, success_reported, exit_status >>
                ELSE /\ cli' = "cli"
                     /\ pc' = "cli_run"
                     /\ UNCHANGED << exc, exit_code, success_reported, exit_status >>
    /\ UNCHANGED << invocation, extra_args, temp_dir_exists, cleanups, sigVars,
                    procVars, callVars, nsignals, callLog, was_interrupted, flowVars >>

(* ---------------------------- CLIHandler.run --------------------------- *)

\* Dispatch on the command line: an unknown command/target pair raises
\* ValueError; init runs the command directly; plan, apply and destroy
\* first run _ensure_terraform_init; unlock starts TerraformUnlocker.run.
CliRun ==
    /\ pc = "cli_run"
    /\ rc = "idle"
    /\ IF invocation.action = "invalid"
         THEN Raise("ValueError")
         ELSE /\ pc' = CASE invocation.action = "init" -> "tf_command"
                         [] invocation.action = "unlock" -> "probe"
                         [] OTHER -> "ensure_init"
              /\ UNCHANGED << exc, exit_code, success_reported, exit_status >>
    /\ UNCHANGED << rc, invocation, extra_args, cli, temp_dir_exists, cleanups,
                    sigVars, procVars, callVars, nsignals, callLog, was_interrupted,
                    flowVars >>

(* --------------------------- TerraformManager -------------------------- *)

\* _ensure_terraform_init
EnsureInitCall ==
    /\ pc = "ensure_init"
    /\ BeginCall(<<"terraform", "init", "-input=false", "-reconfigure">>, FALSE)
    /\ UNCHANGED << pc, mainVars, flowVars >>

AfterEnsureInit ==
    /\ pc = "ensure_init"
    /\ rc = "end"
    /\ rc' = "idle"
    /\ IF result = "Success"
         THEN /\ pc' = IF invocation.interactive THEN "check_deps" ELSE "tf_command"
              /\ UNCHANGED << exc, exit_code, success_reported, exit_status >>
         ELSE Raise(ExcOf(result))
    /\ UNCHANGED << invocation, extra_args, cli, temp_dir_exists, cleanups, sigVars,
                    procVars, callVars, nsignals, callLog, was_interrupted, flowVars >>

\* init, plan, apply, destroy without -i: self._run_tf_command([name, *extra_args])
TfCommandCall ==
    /\ pc = "tf_command"
    /\ BeginCall(<<"terraform", invocation.action>> \o extra_args, FALSE)
    /\ UNCHANGED << pc, mainVars, flowVars >>

AfterTfCommand ==
    /\ pc = "tf_command"
    /\ rc = "end"
    /\ rc' = "idle"
    /\ IF result = "Success" THEN Return ELSE Raise(ExcOf(result))
    /\ UNCHANGED << invocation, extra_args, cli, temp_dir_exists, cleanups, sigVars,
                    procVars, callVars, nsignals, callLog, was_interrupted, flowVars >>

(* -------------------------- TerraformUnlocker -------------------------- *)

LockMarker == "Error acquiring the state lock"

\* The character of a text at a position.
CharAt(text, i) == SubSeq(text, i, i)

\* "sub in text" for two texts.
IsSubstring(sub, text) ==
    \E i \in 1..(Len(text) - Len(sub) + 1) : SubSeq(text, i, i + Len(sub) - 1) = sub

\* '"Error acquiring the state lock" in e.stderr'
HasLockMarker(text) == IsSubstring(LockMarker, text)

\* Variant: the class without the hyphen, [a-f0-9].
LockIdCharsNoHyphen == {"a", "b", "c", "d", "e", "f", "0", "1", "2", "3", "4", "5",
                        "6", "7", "8", "9"}

\* The characters of the class [a-f0-9-].
LockIdChars == {"a", "b", "c", "d", "e", "f", "0", "1", "2", "3", "4", "5", "6",
                "7", "8", "9", "-"}

\* The characters \s matches in the texts of this model.
RegexSpace == {" ", "\t", "\n"}

RECURSIVE SkipSpace(_, _)
\* \s* from position i: the first position at or after i that holds no
\* white space (Len(text) + 1 when there is none).
SkipSpace(text, i) ==
    IF i <= Len(text) /\ CharAt(text, i) \in RegexSpace THEN SkipSpace(text, i + 1) ELSE i

RECURSIVE RunEnd(_, _)
\* [a-f0-9-]+ from position i: the first position after the run.
RunEnd(text, i) ==
    IF i <= Len(text) /\ CharAt(text, i) \in LockIdChars THEN RunEnd(text, i + 1) ELSE i

\* The pattern ID:\s*([a-f0-9-]+) matches with its first character at i.
MatchesAt(text, i) ==
    /\ i + 2 <= Len(text)
    /\ SubSeq(text, i, i + 2) = "ID:"
    /\ RunEnd(text, SkipSpace(text, i + 3)) > SkipSpace(text, i + 3)

\* lock_id_match = re.search(r"ID:\s*([a-f0-9-]+)", e.stderr)
\* lock_id = lock_id_match.group(1) if lock_id_match else None
\* re.search takes the leftmost position where the pattern matches and the
\* longest run there.
LockIdOf(text) ==
    IF \E i \in 1..Len(text) : MatchesAt(text, i)
      THEN LET i == CHOOSE k \in 1..Len(text) :
                      MatchesAt(text, k) /\ \A j \in 1..(k - 1) : ~MatchesAt(text, j)
               from == SkipSpace(text, i + 3)
           IN  SubSeq(text, from, RunEnd(text, from) - 1)
      ELSE None

ProbeCall ==
    /\ pc = "probe"
    /\ BeginCall(<<"terraform", "plan", "-input=false">>, FALSE)
    /\ UNCHANGED << pc, mainVars, flowVars >>

\* TerraformUnlocker.run after the probe, up to the confirmation prompt.
\* The membership test '"Error acquiring the state lock" in e.stderr'
\* raises TypeError when e.stderr is None.
AfterProbe ==
    /\ pc = "probe"
    /\ rc = "end"
    /\ rc' = "idle"
    /\ IF result = "Success" THEN Return /\ UNCHANGED << caught, lock_id >>
       ELSE IF result # "CommandFailed"
         THEN Raise(ExcOf(result)) /\ UNCHANGED << caught, lock_id >>
       ELSE /\ caught' = error
            /\ IF caught'.stderr = None THEN Raise("TypeError") /\ UNCHANGED lock_id
               ELSE IF HasLockMarker(caught'.stderr)
                 THEN /\ lock_id' = LockIdOf(caught'.stderr)
                      /\ pc' = "unlock_confirm"
                      /\ UNCHANGED << exc, exit_code, success_reported, exit_status >>
               ELSE Return /\ UNCHANGED lock_id
    /\ UNCHANGED << invocation, extra_args, cli, temp_dir_exists, cleanups, sigVars,
                    procVars, callVars, nsignals, callLog, was_interrupted,
                    plan_data, changes, choice, index, prompts, system_path, missing >>

(* ------------------------- text typed by the operator ------------------ *)

\* A line of input is a sequence of characters.
Uppers == << "A", "B", "C", "D", "E", "F", "G", "H", "I", "J", "K", "L", "M",
             "N", "O", "P", "Q", "R", "S", "T", "U", "V", "W", "X", "Y", "Z" >>
Lowers == << "a", "b", "c", "d", "e", "f", "g", "h", "i", "j", "k", "l", "m",
             "n", "o", "p", "q", "r", "s", "t", "u", "v", "w", "x", "y", "z" >>
Digits == << "0", "1", "2", "3", "4", "5", "6", "7", "8", "9" >>
Whitespace == {" ", "\t", "\n"}

LowerChar(c) ==
    IF \E i \in 1..26 : Uppers[i] = c
      THEN Lowers[CHOOSE i \in 1..26 : Uppers[i] = c]
      ELSE c

RECURSIVE Lower(_)
\* str.lower()
Lower(s) == IF s = <<>> THEN <<>> ELSE <<LowerChar(Head(s))>> \o Lower(Tail(s))

RECURSIVE LStrip(_)
LStrip(s) == IF s # <<>> /\ Head(s) \in Whitespace THEN LStrip(Tail(s)) ELSE s

RECURSIVE RStrip(_)
RStrip(s) ==
    IF s # <<>> /\ s[Len(s)] \in Whitespace THEN RStrip(SubSeq(s, 1, Len(s) - 1)) ELSE s

\* str.strip()
Strip(s) == RStrip(LStrip(s))

IsDigit(c) == \E i \in 1..10 : Digits[i] = c
DigitValue(c) == (CHOOSE i \in 1..10 : Digits[i] = c) - 1

\* The text without a leading sign.
Unsigned(s) == IF s # <<>> /\ Head(s) \in {"+", "-"} THEN Tail(s) ELSE s

\* int(s) does not raise ValueError: an optional sign and decimal digits.
IsInt(s) == Unsigned(s) # <<>> /\ \A i \in 1..Len(Unsigned(s)) : IsDigit(Unsigned(s)[i])

RECURSIVE DecimalValue(_)
DecimalValue(s) ==
    IF s = <<>> THEN 0 ELSE 10 * DecimalValue(SubSeq(s, 1, Len(s) - 1)) + DigitValue(s[Len(s)])

\* int(s)
ParseInt(s) ==
    IF s # <<>> /\ Head(s) = "-" THEN 0 - DecimalValue(Unsigned(s)) ELSE DecimalValue(Unsigned(s))

\* Lines the operator types at the selection prompt.
SelectionInputs ==
    { <<"t">>, <<"T">>, <<" ", "T", "o", "D", "o", "s", " ">>,
      <<"c">>, <<"C", "a", "n", "c", "e", "l", "a", "r">>,
      <<"1">>, <<" ", "2">>, <<"0">>, <<"3">>, <<"-", "1">>, <<"x">>, <<>> }

\* Lines the operator types at a yes/no prompt.
ConfirmInputs == { <<"s">>, <<"S", " ">>, <<"n">>, <<"s", "i">>, <<>> }

(* ---------------------- TerraformInteractiveRunner --------------------- *)

\* self.temp_manager.get_temp_path(TEMP_PLAN_FILENAME)
plan_file == TempDir \o "/" \o TEMP_PLAN_FILENAME

\* The executables a system path can hold, of those run() asks for.
SystemPaths == SUBSET {"jq"}

\* Variant: every dependency is taken to be present.
MissingNothing(deps, path) == <<>>

\* missing = [dep for dep in deps if not shutil.which(dep)]
MissingDeps(deps, path) == SelectSeq(deps, LAMBDA dep : dep \notin path)

\* _check_dependencies(["jq"]): "if missing: raise FileNotFoundError(...)"
\* with the joined names in the message.
CheckDependencies ==
    /\ pc = "check_deps"
    /\ rc = "idle"
    /\ missing' = MissingDeps(<<"jq">>, system_path)
    /\ IF missing' # <<>>
         THEN Raise("FileNotFoundError")
         ELSE /\ pc' = "gen_plan"
              /\ UNCHANGED << exc, exit_code, success_reported, exit_status >>
    /\ UNCHANGED << rc, invocation, extra_args, cli, temp_dir_exists, cleanups,
                    sigVars, procVars, callVars, nsignals, callLog, was_interrupted,
                    plan_data, changes, choice, index, prompts, system_path,
                    caught, lock_id >>

\* plan_command of _get_plan_changes
PlanCommand(destroy_plan) ==
    <<"plan", "-out", plan_file>> \o extra_args
        \o (IF destroy_plan THEN <<"-destroy">> ELSE <<>>)

GeneratePlanCall ==
    /\ pc = "gen_plan"
    /\ BeginCall(<<"terraform">> \o PlanCommand(invocation.action = "destroy"), FALSE)
    /\ UNCHANGED << pc, mainVars, flowVars >>

\* Variant: the plan is rendered whatever became of its generation.
AfterGeneratePlan_Ungated ==
    /\ pc = "gen_plan"
    /\ rc = "end"
    /\ rc' = "idle"
    /\ pc' = "show_plan"
    /\ UNCHANGED << mainVars, sigVars, procVars, callVars, nsignals, callLog,
                    was_interrupted, flowVars >>

\* _get_plan_changes after the plan call: an exception raised by the call
\* leaves run(), otherwise the plan is rendered.
AfterGeneratePlan ==
    /\ pc = "gen_plan"
    /\ rc = "end"
    /\ rc' = "idle"
    /\ IF result = "Success"
         THEN /\ pc' = "show_plan"
              /\ UNCHANGED << exc, exit_code, success_reported, exit_status >>
         ELSE Raise(ExcOf(result))
    /\ UNCHANGED << invocation, extra_args, cli, temp_dir_exists, cleanups, sigVars,
                    procVars, callVars, nsignals, callLog, was_interrupted, flowVars >>

ShowPlanCall ==
    /\ pc = "show_plan"
    /\ BeginCall(<<"terraform", "show", "-json", plan_file>>, TRUE)
    /\ UNCHANGED << pc, mainVars, flowVars >>

\* The action list of one entry: res.get("change", {}).get("actions", [])
Actions(res) == Get(Get(res, "change", EmptyDict), "actions", <<>>)

Contains(seq, x) == \E i \in 1..Len(seq) : seq[i] = x

RECURSIVE Join(_)
\* ",".join(seq)
Join(seq) ==
    IF seq = <<>> THEN ""
    ELSE IF Len(seq) = 1 THEN seq[1]
    ELSE seq[1] \o "," \o Join(Tail(seq))

\* The condition of the list comprehension: '"no-op" not in actions'.
Kept(res) == ~Contains(Actions(res), "no-op")

RECURSIVE Project(_)
Project(rcs) ==
    IF rcs = <<>> THEN <<>>
    ELSE (IF Kept(Head(rcs))
            THEN << <<Get(Head(rcs), "address", ""), Join(Actions(Head(rcs)))>> >>
            ELSE <<>>) \o Project(Tail(rcs))

\* The list comprehension of _get_plan_changes over plan_data.
GetPlanChanges(data) == Project(Get(data, "resource_changes", <<>>))

\* Variant: the empty list is not recognised.
NoChangesIgnored(chg) == FALSE

\* "if not changes" in run()
NoChanges(chg) == chg = <<>>

\* _get_plan_changes after "terraform show", then the rest of run():
\* json.loads raises json.JSONDecodeError (a ValueError) on other text; an
\* empty list ends the workflow.
AfterShowPlan ==
    /\ pc = "show_plan"
    /\ rc = "end"
    /\ rc' = "idle"
    /\ IF result # "Success"
         THEN Raise(ExcOf(result)) /\ UNCHANGED << plan_data, changes >>
       ELSE IF ~Parseable(stdout)
         THEN Raise("ValueError") /\ UNCHANGED << plan_data, changes >>
       ELSE /\ plan_data' = JsonLoads(stdout)
            /\ changes' = GetPlanChanges(plan_data')
            /\ IF NoChanges(changes')
                 THEN Return
                 ELSE /\ pc' = "prompt_select"
                      /\ UNCHANGED << exc, exit_code, success_reported, exit_status >>
    /\ UNCHANGED << invocation, extra_args, cli, temp_dir_exists, cleanups, sigVars,
                    procVars, callVars, nsignals, callLog, was_interrupted, choice,
                    index, prompts, localVars >>

\* final_command = "apply" if self.command == "plan" else "destroy"
final_command == IF invocation.action = "plan" THEN "apply" ELSE "destroy"

CancelTokens == { <<"c">>, <<"c", "a", "n", "c", "e", "l", "a", "r">> }
AllTokens == { <<"t">>, <<"t", "o", "d", "o", "s">> }

\* Variant: the except clause names KeyboardInterrupt only.
SelectionCaughtOnlyInterrupt == {"KeyboardInterrupt"}

\* The exception classes named by the except clause of _prompt_for_selection.
SelectionCaught == {"ValueError", "KeyboardInterrupt"}

\* An exception raised inside the try statement of _prompt_for_selection:
\* a class the except clause names is reported as a cancelled operation and
\* the method returns, any other class goes on to main.
RaiseInSelection(e) == IF e \in SelectionCaught THEN Return ELSE Raise(e)

\* _prompt_for_selection up to the follow-up call or the second prompt.  A
\* ValueError (int() or the range test) is caught by the except clause,
\* which reports the cancellation; the method returns.
PromptForSelection ==
    /\ pc = "prompt_select"
    /\ rc = "idle"
    /\ \E line \in SelectionInputs :
         /\ choice' = Lower(Strip(line))
         /\ prompts' = Append(prompts, [prompt |-> "select", answer |-> line])
         /\ IF choice' \in CancelTokens THEN Return /\ UNCHANGED index
            ELSE IF choice' \in AllTokens
              THEN /\ pc' = "follow_all"
                   /\ UNCHANGED << index, exc, exit_code, success_reported, exit_status >>
            ELSE IF ~IsInt(choice') THEN RaiseInSelection("ValueError") /\ UNCHANGED index
            ELSE /\ index' = ParseInt(choice')
                 /\ IF 1 <= index' /\ index' <= Len(changes)
                      THEN /\ pc' = "prompt_confirm"
                           /\ UNCHANGED << exc, exit_code, success_reported, exit_status >>
                      ELSE RaiseInSelection("ValueError")
    /\ UNCHANGED << rc, invocation, extra_args, cli, temp_dir_exists, cleanups,
                    sigVars, procVars, callVars, nsignals, callLog, was_interrupted,
                    plan_data, changes, localVars >>

\* The second prompt: only the answer "s" goes on to the call.
PromptConfirm ==
    /\ pc = "prompt_confirm"
    /\ rc = "idle"
    /\ \E line \in ConfirmInputs :
         /\ prompts' = Append(prompts, [prompt |-> "confirm", answer |-> line])
         /\ IF Lower(Strip(line)) = <<"s">>
              THEN /\ pc' = "follow_target"
                   /\ UNCHANGED << exc, exit_code, success_reported, exit_status >>
              ELSE Return
    /\ UNCHANGED << rc, invocation, extra_args, cli, temp_dir_exists, cleanups,
                    sigVars, procVars, callVars, nsignals, callLog, was_interrupted,
                    plan_data, changes, choice, index, localVars >>

\* Variant: the plan file is left out of the follow-up command.
FollowAllWithoutPlan == <<final_command, "-auto-approve">>

\* self._run_tf_command([final_command, "-auto-approve", str(plan_file)])
FollowAllCommand == <<final_command, "-auto-approve", plan_file>>

\* Variant: the target is always the first displayed change.
FollowTargetFirst(i) ==
    <<final_command, "-auto-approve", "-target=" \o changes[1][1]>> \o extra_args

\* target = f"-target={changes[index - 1][0]}"
\* self._run_tf_command([final_command, "-auto-approve", target, *self.extra_args])
FollowTargetCommand(i) ==
    <<final_command, "-auto-approve", "-target=" \o changes[i][1]>> \o extra_args

FollowAllCall ==
    /\ pc = "follow_all"
    /\ BeginCall(<<"terraform">> \o FollowAllCommand, FALSE)
    /\ UNCHANGED << pc, mainVars, flowVars >>

FollowTargetCall ==
    /\ pc = "follow_target"
    /\ BeginCall(<<"terraform">> \o FollowTargetCommand(index), FALSE)
    /\ UNCHANGED << pc, mainVars, flowVars >>

\* The follow-up call has ended inside the try statement of
\* _prompt_for_selection.
AfterFollowUp ==
    /\ pc \in {"follow_all", "follow_target"}
    /\ rc = "end"
    /\ rc' = "idle"
    /\ IF result = "Success" THEN Return ELSE RaiseInSelection(ExcOf(result))
    /\ UNCHANGED << invocation, extra_args, cli, temp_dir_exists, cleanups, sigVars,
                    procVars, callVars, nsignals, callLog, was_interrupted, flowVars >>

(* ---------------------------- specification ---------------------------- *)

\* The state main() is in once its own handlers are installed (main.py
\* lines 37-38), except for the command line and the control position.
(* ------------------ TerraformUnlocker after the probe ------------------ *)

\* Lines the operator types when asked for a lock identifier.
LockIdInputs == { <<>>, <<" ">>, <<"a", "b", "-", "1">>, <<" ", "7", "f", " ">>,
                  <<"X", "Y">> }

RECURSIVE Concat(_)
\* The text made of the characters of a line.
Concat(line) == IF line = <<>> THEN "" ELSE Head(line) \o Concat(Tail(line))

\* Variant: every answer that begins with "s" confirms.
ConfirmedByPrefix(line) ==
    Lower(Strip(line)) # <<>> /\ Head(Lower(Strip(line))) = "s"

\* input("¿Forzar desbloqueo? (s/N): ").strip().lower() == 's'
Confirmed(line) == Lower(Strip(line)) = <<"s">>

\* The truth value of lock_id in "if not lock_id" and "if lock_id".
HasLockId(id) == id # None /\ id # ""

\* The confirmation prompt of TerraformUnlocker.run and, when the operator
\* confirms and an identifier was extracted, the way to the unlock call.
UnlockConfirm ==
    /\ pc = "unlock_confirm"
    /\ rc = "idle"
    /\ \E line \in ConfirmInputs :
         /\ prompts' = Append(prompts, [prompt |-> "unlock", answer |-> line])
         /\ IF ~Confirmed(line) THEN Return
            ELSE /\ pc' = IF HasLockId(lock_id) THEN "force_unlock" ELSE "unlock_manual"
                 /\ UNCHANGED << exc, exit_code, success_reported, exit_status >>
    /\ UNCHANGED << rc, invocation, extra_args, cli, temp_dir_exists, cleanups,
                    sigVars, procVars, callVars, nsignals, callLog, was_interrupted,
                    plan_data, changes, choice, index, localVars >>

\* lock_id = input("Introduce el Lock ID manualmente: ").strip(), then
\* "if lock_id:".
UnlockManualId ==
    /\ pc = "unlock_manual"
    /\ rc = "idle"
    /\ \E line \in LockIdInputs :
         /\ prompts' = Append(prompts, [prompt |-> "lock_id", answer |-> line])
         /\ lock_id' = Concat(Strip(line))
         /\ IF HasLockId(lock_id')
              THEN /\ pc' = "force_unlock"
                   /\ UNCHANGED << exc, exit_code, success_reported, exit_status >>
              ELSE Return
    /\ UNCHANGED << rc, invocation, extra_args, cli, temp_dir_exists, cleanups,
                    sigVars, procVars, callVars, nsignals, callLog, was_interrupted,
                    plan_data, changes, choice, index, system_path, missing, caught >>

\* ["force-unlock", "-force", lock_id] behind "terraform"
ForceUnlockCommand(id) == <<"terraform", "force-unlock", "-force", id>>

\* The unlock call is made inside the except clause: what it raises leaves
\* run(); after a success run() reports the lock released and returns.
AfterForceUnlock ==
    /\ pc = "force_unlock"
    /\ rc = "end"
    /\ rc' = "idle"
    /\ IF result = "Success" THEN Return ELSE Raise(ExcOf(result))
    /\ UNCHANGED << invocation, extra_args, cli, temp_dir_exists, cleanups, sigVars,
                    procVars, callVars, nsignals, callLog, was_interrupted, flowVars >>

InitCommon ==
    /\ rc = "idle"
    /\ cli = None
    /\ temp_dir_exists = FALSE
    /\ cleanups = 0
    /\ exit_status = None
    /\ exc = None
    /\ success_reported = FALSE
    /\ exit_code = 0
    /\ sigint_handler = MainHandler
    /\ sigterm_handler = MainHandler
    /\ original_sigint = None
    /\ original_sigterm = None
    /\ interrupt_count = 0
    /\ current_process = None
    /\ command = <<>>
    /\ capture = FALSE
    /\ child = "none"
    /\ child_code = 0
    /\ returncode = 0
    /\ stdout = None
    /\ stderr = None
    /\ result = "none"
    /\ error = NoError
    /\ sent = <<>>
    /\ swallowed = 0
    /\ handler_raised = FALSE
    /\ nsignals = 0
    /\ calls = <<>>
    /\ was_interrupted = FALSE
    /\ changes = <<>>
    /\ choice = <<>>
    /\ index = 0
    /\ prompts = <<>>
    /\ missing = <<>>
    /\ caught = NoError
    /\ lock_id = None
    /\ entry_signals = 0
    /\ entry_count = 0
    /\ running_hits = 0

Init ==
    /\ InitCommon
    /\ pc = "main41"
    /\ invocation \in Invocations
    /\ extra_args \in ExtraArgsSet
    /\ system_path \in SystemPaths
    /\ plan_data = EmptyDict

\* The program as main.py composes it.  The steps of TerraformUnlocker.run
\* behind the lock marker are not among its steps: run_command hands the
\* probe's failure over with stderr = None, so AfterProbe never takes that
\* branch here; SpecUnlock below has them.
Next ==
    \/ Line45 \/ Line46 \/ Line47 \/ PopenLaunch \/ PopenFails \/ Line51Store
    \/ Communicate \/ Line58 \/ Line65 \/ Line66 \/ Line67
    \/ ChildExit
    \/ \E sig \in Signals : SupervisorSignal(sig)
    \/ \E sig \in Signals : MainSignal(sig)
    \/ Main41 \/ CheckVersion \/ GetCurrentVersionCall \/ AfterGetCurrentVersion
    \/ CliRun \/ EnsureInitCall \/ AfterEnsureInit \/ TfCommandCall \/ AfterTfCommand
    \/ ProbeCall \/ AfterProbe
    \/ CheckDependencies \/ GeneratePlanCall \/ AfterGeneratePlan
    \/ ShowPlanCall \/ AfterShowPlan \/ PromptForSelection \/ PromptConfirm
    \/ FollowAllCall \/ FollowTargetCall \/ AfterFollowUp
    \/ MainFinally

Spec == Init /\ [][Next]_vars

(* -------- _get_plan_changes as a function of the rendered plan --------- *)

ChangeEntries == {EntryA, EntryB, EntryNoop, EntryReplace, EntryMixed, EntryBare}

SeqsUpTo(S, n) == UNION { [1..k -> S] : k \in 0..n }

\* Documents "terraform show -json" can render.
PlanPayloads ==
    { [resource_changes |-> rcs] : rcs \in SeqsUpTo(ChangeEntries, MaxEntries) }
    \cup { [format_version |-> "1.2"] }

InitChanges ==
    /\ InitCommon
    /\ pc = "changes_input"
    /\ invocation = [action |-> "plan", interactive |-> TRUE]
    /\ extra_args = <<>>
    /\ system_path = {"jq"}
    /\ plan_data \in PlanPayloads

\* The return statement of _get_plan_changes applied to plan_data.
ComputeChanges ==
    /\ pc = "changes_input"
    /\ changes' = GetPlanChanges(plan_data)
    /\ pc' = "changes_output"
    /\ UNCHANGED << rc, mainVars, sigVars, procVars, callVars, nsignals, callLog,
                    was_interrupted, plan_data, choice, index, prompts, localVars >>

SpecChanges == InitChanges /\ [][ComputeChanges]_vars

(* ----- TerraformUnlocker.run over the process manager it is handed ----- *)

\* Diagnostic texts a failed probe can carry: None is what run_command of
\* this repository passes for a call made without capture.
ProbeTexts ==
    { None, "", "Error: terraform failed",
      "Error: Error acquiring the state lock",
      "Error acquiring the state lock  ID:        9db5-f1a0  Path: x",
      "Error acquiring the state lock ID:7e Who: ID: 12",
      "Error acquiring the state lock ID: XY ID:\tab-1",
      "ID: 33 Error acquiring the state lock",
      "Error acquiring the state lock ID: 9dG5",
      "Error acquiring the state lock id: 12 ID: " }

\* The outcomes of the contract of run_command.
Outcomes == {"Success", "CommandFailed", "Interrupted", "LaunchError"}

\* self.process_manager.run_command(["terraform", *command], ...) on the
\* process manager TerraformUnlocker was constructed with, entered and left
\* in one step: it returns or raises, a CommandExecutionError with one of
\* the texts as its stderr.
ManagerCall(argv, texts) ==
    /\ rc = "idle"
    /\ rc' = "end"
    /\ command' = argv
    /\ calls' = Append(calls, argv)
    /\ entry_signals' = nsignals
    /\ entry_count' = interrupt_count
    /\ running_hits' = 0
    /\ \E r \in Outcomes, text \in texts :
         /\ result' = r
         /\ returncode' = IF r = "CommandFailed" THEN 1 ELSE 0
         /\ error' = IF r = "CommandFailed"
                       THEN CommandExecutionError(1, None, text) ELSE NoError
         /\ was_interrupted' = (was_interrupted \/ r = "Interrupted")
    /\ UNCHANGED << pc, mainVars, sigVars, procVars, capture, stdout, stderr, nsignals,
                    flowVars >>

ManagerProbe ==
    /\ pc = "probe"
    /\ ManagerCall(<<"terraform", "plan", "-input=false">>, ProbeTexts)

ManagerForceUnlock ==
    /\ pc = "force_unlock"
    /\ ManagerCall(ForceUnlockCommand(lock_id), {"Error: terraform failed"})

\* CLIHandler.run has dispatched "unlock": TerraformUnlocker.run begins.
InitUnlock ==
    /\ InitCommon
    /\ pc = "probe"
    /\ invocation = [action |-> "unlock", interactive |-> FALSE]
    /\ extra_args \in ExtraArgsSet
    /\ system_path \in SystemPaths
    /\ plan_data = EmptyDict

NextUnlock ==
    \/ ManagerProbe \/ AfterProbe \/ UnlockConfirm \/ UnlockManualId
    \/ ManagerForceUnlock \/ AfterForceUnlock

SpecUnlock == InitUnlock /\ [][NextUnlock]_vars

(* ------- the lock identifier as a function of the diagnostic text ------ *)

\* Diagnostic texts with the lock marker: before the label there may be
\* another label, then come a label in some spelling, white space, a
\* token and the rest of the text.
LockTexts ==
    { LockMarker \o " " \o before \o label \o space \o token \o rest :
        before \in {"", "RequestID: XY, "},
        label \in {"ID:", "id:", "ID"},
        space \in {"", " ", "  \t"},
        token \in {"", "9db5-f1a0", "XY", "9dG5", "-", "7"},
        rest \in {"", " Path: x"} }

\* The probe has failed with one of the texts; run() is at its except
\* clause.
InitLockId ==
    /\ InitCommon
    /\ pc = "probe"
    /\ invocation = [action |-> "unlock", interactive |-> FALSE]
    /\ extra_args = <<>>
    /\ system_path = {"jq"}
    /\ plan_data = EmptyDict

\* The probe fails with one of the texts.
ManagerProbeLocked ==
    /\ pc = "probe"
    /\ rc = "idle"
    /\ calls = <<>>
    /\ rc' = "end"
    /\ command' = <<"terraform", "plan", "-input=false">>
    /\ calls' = Append(calls, command')
    /\ entry_signals' = nsignals
    /\ entry_count' = interrupt_count
    /\ running_hits' = 0
    /\ result' = "CommandFailed"
    /\ returncode' = 1
    /\ \E text \in LockTexts : error' = CommandExecutionError(1, None, text)
    /\ UNCHANGED << pc, mainVars, sigVars, procVars, capture, stdout, stderr, nsignals,
                    was_interrupted, flowVars >>

SpecLockId == InitLockId /\ [][ManagerProbeLocked \/ AfterProbe]_vars

(* ========================= properties checked ========================= *)

\* The supervised calls issued after the plan-render call of this run.
HasShow == \E i \in 1..Len(calls) : calls[i][2] = "show"
ShowIndex == CHOOSE i \in 1..Len(calls) : calls[i][2] = "show"
FollowUps == IF HasShow THEN SubSeq(calls, ShowIndex + 1, Len(calls)) ELSE <<>>

\* json.loads of the rendered plan has produced plan_data.
Parsed == DOMAIN plan_data # {}

\* main's own handler has ended the run with sys.exit(130).
RunEndedBySignal == exc = "SystemExit(130)"

\* C1: a supervised call whose child ran and whose interrupt counter is at
\* least 1 when the call exits ends Interrupted, whatever the exit status of
\* the child.
C1_InterruptedWheneverCounted ==
    (rc = "end" /\ child = "exited" /\ interrupt_count >= 1) => result = "Interrupted"

\* C2: a supervised call that ends with interrupt counter 0 after its child
\* exited is Success exactly when the child's exit status is 0, and is
\* otherwise CommandFailed carrying the child's exit status.
C2_OutcomeFollowsExitCode ==
    (rc = "end" /\ child = "exited" /\ interrupt_count = 0) =>
        /\ (result = "Success") <=> (child_code = 0)
        /\ child_code # 0 => (result = "CommandFailed" /\ error.return_code = child_code)

C2_Witness ==
    /\ rc = "end"
    /\ interrupt_count = 0
    /\ result = "CommandFailed"
    /\ child_code = 2
    /\ nsignals >= 1

\* C3: once run_command has returned or raised (Success, CommandFailed,
\* Interrupted or a launch failure), both handlers are the ones installed
\* before the call and current_process is None; outside a call no signal is
\* routed to the supervisor's handler.
C3_HandlersRestored ==
    /\ rc = "end" =>
         /\ result \in {"Success", "CommandFailed", "Interrupted", "LaunchError"}
         /\ sigint_handler = MainHandler
         /\ sigterm_handler = MainHandler
         /\ current_process = None
    /\ (rc \in {"idle", "end", "line45"} /\ ~RunEndedBySignal) =>
         /\ sigint_handler = MainHandler
         /\ sigterm_handler = MainHandler
         /\ current_process = None

C3_Witness ==
    /\ rc = "end"
    /\ result = "Interrupted"
    /\ sent # <<>>
    /\ Len(calls) >= 2

\* C4: when a supervised call of any workflow ended Interrupted, the
\* process exits with status 130.
C4_InterruptedExits130 ==
    (pc = "exited" /\ was_interrupted) => exit_status = 130

C6_FailureCarriesText ==
    (rc = "end" /\ result = "CommandFailed" /\ interrupt_count = 0) =>
        IF capture
          THEN error.stdout = stdout /\ error.stderr = stderr
               /\ error.stdout # None /\ error.stderr # None
          ELSE error.stdout = "" /\ error.stderr = ""

\* An entry is dropped exactly when its action list is ["no-op"].
OnlyNoop(res) == Actions(res) = <<"no-op">>

RECURSIVE KeepAllButOnlyNoop(_)
KeepAllButOnlyNoop(rcs) ==
    IF Len(rcs) = 0 THEN <<>>
    ELSE (IF OnlyNoop(rcs[1]) THEN <<>>
          ELSE << <<Get(rcs[1], "address", ""), Join(Actions(rcs[1]))>> >>)
         \o KeepAllButOnlyNoop(SubSeq(rcs, 2, Len(rcs)))

\* C7: _get_plan_changes returns, in the order of the payload, one
\* (address, actions) pair for every entry whose action list is not exactly
\* ["no-op"], and nothing else.
C7_DropsExactlyNoop ==
    pc = "changes_output" =>
        changes = KeepAllButOnlyNoop(Get(plan_data, "resource_changes", <<>>))

\* C8: with an empty change list the interactive workflow asks nothing and
\* issues no supervised call after the plan-render call.
C8_NothingToDo ==
    (Parsed /\ changes = <<>>) => (prompts = <<>> /\ FollowUps = <<>>)

C8_Witness ==
    /\ pc = "exited"
    /\ Parsed
    /\ changes = <<>>
    /\ Len(Get(plan_data, "resource_changes", <<>>)) = 1
    /\ success_reported

\* The follow-up command for the original command: apply after plan,
\* destroy after destroy.
ExpectedFollowUp == IF invocation.action = "plan" THEN "apply" ELSE "destroy"

\* The path the plan-generation call of this run wrote the plan to.
GeneratedPlanPath == calls[ShowIndex - 1][4]

\* C9: after the answer "t" or "todos" (any letter case) there is no second
\* prompt and exactly one follow-up call, [terraform, F, -auto-approve,
\* <path of the generated plan>], F being apply for plan and destroy for
\* destroy.
C9_AllReusesPlan ==
    (prompts # <<>> /\ choice \in AllTokens) =>
        /\ Len(prompts) = 1
        /\ Len(FollowUps) <= 1
        /\ FollowUps # <<>> =>
             FollowUps[1] = <<"terraform", ExpectedFollowUp, "-auto-approve", GeneratedPlanPath>>
        /\ (~(pc = "follow_all" /\ rc = "idle") /\ ~RunEndedBySignal) => Len(FollowUps) = 1

C9_Witness ==
    /\ pc = "exited"
    /\ prompts # <<>>
    /\ prompts[1].answer = <<"T">>
    /\ invocation.action = "destroy"
    /\ FollowUps = << <<"terraform", "destroy", "-auto-approve", "/tmp/make-cli-x/tmp.tfplan">> >>
    /\ exit_status = 0

\* C10: after an index i in 1..N a follow-up call is issued exactly when
\* the second prompt is answered "s"; the call is [terraform, F,
\* -auto-approve, -target=<address of the i-th change>, extra arguments...]
\* and does not name the plan file.
C10_TargetNeedsConfirmation ==
    LET inrange == /\ prompts # <<>>
                   /\ IsInt(choice)
                   /\ 1 <= ParseInt(choice)
                   /\ ParseInt(choice) <= Len(changes)
        confirmed == Len(prompts) = 2 /\ Lower(Strip(prompts[2].answer)) = <<"s">>
        expected == <<"terraform", ExpectedFollowUp, "-auto-approve",
                      "-target=" \o changes[ParseInt(choice)][1]>> \o extra_args
    IN inrange =>
        /\ FollowUps # <<>> =>
             /\ confirmed
             /\ FollowUps = <<expected>>
             /\ ~Contains(expected, GeneratedPlanPath)
        /\ (confirmed /\ ~(pc = "follow_target" /\ rc = "idle") /\ ~RunEndedBySignal)
             => Len(FollowUps) = 1

C10_Witness ==
    /\ pc = "exited"
    /\ Len(prompts) = 2
    /\ prompts[1].answer = <<" ", "2">>
    /\ prompts[2].answer = <<"s">>
    /\ changes = << <<"a", "create">>, <<"b", "delete">> >>
    /\ FollowUps = << <<"terraform", "apply", "-auto-approve", "-target=b", "-var=x">> >>

\* The selection typed is an index into the displayed list.
InRangeIndex ==
    IsInt(choice) /\ 1 <= ParseInt(choice) /\ ParseInt(choice) <= Len(changes)

\* C11: after a selection that is neither an all token nor an index in
\* 1..N (a cancel token, 0, N+1, a negative number, other text, nothing) no
\* follow-up call is issued, no second prompt is shown and the workflow
\* returns normally: no exception reaches main, which reports success.
C11_OtherInputCancels ==
    (prompts # <<>> /\ choice \notin AllTokens /\ ~InRangeIndex) =>
        /\ FollowUps = <<>>
        /\ Len(prompts) = 1
        /\ ~RunEndedBySignal =>
             (pc \in {"main_finally", "exited"} /\ exc = None /\ success_reported)
        /\ (pc = "exited" /\ ~RunEndedBySignal) => exit_status = 0

C11_Witness ==
    /\ pc = "exited"
    /\ Len(changes) = 2
    /\ prompts # <<>>
    /\ prompts[1].answer = <<"3">>
    /\ FollowUps = <<>>
    /\ exit_status = 0

\* Positions of the control thread inside TerraformInteractiveRunner.run
\* after its dependency check.
InsideRun == {"gen_plan", "show_plan", "prompt_select", "prompt_confirm",
              "follow_all", "follow_target"}

\* C12: when jq is not on the system path, run() raises the missing
\* dependency error (FileNotFoundError listing jq) with no supervised call
\* and no prompt of its own: the only calls of the run are the version and
\* init calls made before run(), and the error reaches main (exit 1).
C12_MissingDependencyFirst ==
    (invocation.interactive /\ "jq" \notin system_path) =>
        /\ pc \notin InsideRun
        /\ prompts = <<>>
        /\ \A i \in 1..Len(calls) : calls[i][2] \in {"version", "init"}
        /\ missing \in {<<>>, <<"jq">>}
        /\ missing = <<"jq">> =>
             /\ calls # <<>> /\ calls[Len(calls)][2] = "init"
             /\ pc \in {"main_finally", "exited"}
             /\ ~RunEndedBySignal => exc = "FileNotFoundError"
             /\ (pc = "exited" /\ ~RunEndedBySignal) => exit_status = 1

C12_Witness ==
    /\ pc = "exited"
    /\ invocation.interactive
    /\ system_path = {}
    /\ missing = <<"jq">>
    /\ exc = "FileNotFoundError"
    /\ exit_status = 1

\* C13: a probe that ends in CommandFailed does not make
\* TerraformUnlocker.run raise: once the run has left the workflow, no
\* exception has reached main.
C13_ProbeFailureHandled ==
    ( /\ invocation.action = "unlock"
      /\ Len(calls) >= 1
      /\ calls[Len(calls)] = <<"terraform", "plan", "-input=false">>
      /\ result = "CommandFailed"
      /\ pc \in {"main_finally", "exited"}
      /\ ~RunEndedBySignal ) => exc = None

\* The unlock calls issued so far.
ForceUnlocks == SelectSeq(calls, LAMBDA c : c[2] = "force-unlock")

\* The n-th prompt was the given one.
Prompted(n, name) == Len(prompts) >= n /\ prompts[n].prompt = name

\* C14: an unlock call is issued only after a probe that failed with the
\* lock marker in its text, a confirmation answered 's' and with a
\* non-empty identifier, the one extracted from the text or else the one
\* typed; it is the only call after the probe, it is issued at most once
\* and it is [terraform, force-unlock, -force, identifier].
C14_UnlockOnlyWhenConfirmed ==
    /\ Len(calls) <= 2
    /\ Len(ForceUnlocks) <= 1
    /\ calls # <<>> => calls[1] = <<"terraform", "plan", "-input=false">>
    /\ Len(calls) = 2 =>
         /\ caught # NoError
         /\ caught.stderr # None
         /\ IsSubstring("Error acquiring the state lock", caught.stderr)
         /\ Prompted(1, "unlock")
         /\ Lower(Strip(prompts[1].answer)) = <<"s">>
         /\ lock_id # None /\ lock_id # ""
         /\ IF Prompted(2, "lock_id")
              THEN /\ LockIdOf(caught.stderr) = None
                   /\ lock_id = Concat(Strip(prompts[2].answer))
              ELSE lock_id = LockIdOf(caught.stderr)
         /\ calls[2] = <<"terraform", "force-unlock", "-force", lock_id>>

\* The unlock call is issued with the identifier typed by the operator.
C14_Witness ==
    /\ pc = "main_finally"
    /\ Len(calls) = 2
    /\ caught.stderr = "Error: Error acquiring the state lock"
    /\ Prompted(2, "lock_id")
    /\ prompts[1].answer = <<"S", " ">>
    /\ calls[2] = <<"terraform", "force-unlock", "-force", "7f">>
    /\ result = "Success"
    /\ success_reported

\* C15: whenever the process has exited, the temporary directory made by
\* CLIHandler has been cleaned up.
C15_CleanupOnEveryExit ==
    pc = "exited" => ~temp_dir_exists

\* The outcome a call has on the exit status of its child alone.
OwnOutcome == IF child_code # 0 THEN "CommandFailed" ELSE "Success"

\* C16: a call whose child ran to its end, and during which the handler
\* never found a running child to signal, ends with the outcome its exit
\* status gives, as if no signal had occurred.
C16_IdleSignalIsNoOp ==
    (rc = "end" /\ child = "exited" /\ sent = <<>> /\ swallowed = 0) =>
        result = OwnOutcome

\* A step of _signal_handler.
HandlerStep == interrupt_count' = interrupt_count + 1 /\ nsignals' = nsignals + 1

\* C17: a step of _signal_handler taken when the child has already exited
\* sends no signal, leaves the child as it is and raises nothing.
C17_LateInterruptSendsNothing ==
    [][ (HandlerStep /\ child = "exited") =>
          (sent' = sent /\ swallowed' = swallowed /\ ~handler_raised'
             /\ child' = child /\ child_code' = child_code) ]_vars

\* A first interrupt reached the running child, a second one came after
\* the child had exited.
C17_Witness ==
    /\ rc = "line58"
    /\ child = "exited"
    /\ interrupt_count = 2
    /\ Len(sent) = 1
    /\ swallowed = 0
    /\ ~handler_raised

\* C18: a signal delivered while the selection prompt or the confirmation
\* prompt waits for input makes the workflow return normally: no
\* exception is in flight and main goes on to report success.
C18_PromptInterruptCancels ==
    [][ (pc \in {"prompt_select", "prompt_confirm"} /\ nsignals' = nsignals + 1) =>
          (exc' = None /\ pc' = "main_finally" /\ success_reported'
             /\ calls' = calls) ]_vars

\* The call that generates the plan file / renders it / follows the prompt.
IsGenerate(argv) == Len(argv) >= 3 /\ argv[2] = "plan" /\ argv[3] = "-out"
IsRender(argv) == Len(argv) >= 2 /\ argv[2] = "show"
IsFollowUp(argv) == Len(argv) >= 2 /\ argv[2] \in {"apply", "destroy"}

\* A supervised call begins in this step.
CallBegins == Len(calls') = Len(calls) + 1

\* When a call begins no child is running; the render call begins only
\* after the generation call returned Success; a follow-up call begins only
\* after the render call returned Success and its output was parsed.
C19_Gated ==
    (invocation.interactive /\ CallBegins) =>
        /\ child # "running"
        /\ rc = "idle"
        /\ IsRender(command') =>
             (IsGenerate(command) /\ result = "Success" /\ child = "exited"
                /\ child_code = 0)
        /\ IsFollowUp(command') =>
             (IsRender(command) /\ result = "Success" /\ child = "exited"
                /\ child_code = 0 /\ Parseable(stdout) /\ plan_data = JsonLoads(stdout)
                /\ Len(calls) = ShowIndex)
        /\ (IsGenerate(command) \/ IsRender(command)) => result = "Success"

\* A failure of the generation or of the render call has left run() as
\* the exception of that failure, with main about to exit or exited.
C19_Propagates ==
    ( /\ invocation.interactive
      /\ rc = "idle"
      /\ IsGenerate(command) \/ IsRender(command)
      /\ \/ result \in {"CommandFailed", "Interrupted", "LaunchError"}
         \/ IsRender(command) /\ result = "Success" /\ ~Parseable(stdout)
              /\ pc # "show_plan"
      /\ ~RunEndedBySignal ) =>
        /\ pc \in {"main_finally", "exited"}
        /\ exc = IF result = "Success" THEN "ValueError" ELSE ExcOf(result)
        /\ ~success_reported
        /\ calls[Len(calls)] = command

\* C19: the calls on the plan file are sequential and gated on success, one
\* child at a time, and a failure of generation or render (a failed or
\* interrupted call, output that cannot be parsed) reaches the caller with
\* no later call.
C19_SequentialAndGated ==
    []C19_Propagates /\ [][C19_Gated]_vars

\* The whole chain ran: generation, render, follow-up on the plan file.
C19_Witness ==
    /\ pc = "exited"
    /\ Len(calls) >= 3
    /\ HasShow
    /\ IsGenerate(calls[ShowIndex - 1])
    /\ FollowUps # <<>>
    /\ exit_status = 0

\* C20: a call during which no signal is delivered ends with the outcome
\* its own exit status gives, whatever the counter held when it began.
C20_CounterPerCall ==
    (rc = "end" /\ nsignals = entry_signals /\ child = "exited") =>
        (result = OwnOutcome /\ interrupt_count = 0)

\* The call before left the counter above zero.
C20_Witness ==
    /\ rc = "end"
    /\ entry_count > 0
    /\ nsignals = entry_signals
    /\ child = "exited"
    /\ result = "Success"

\* A hexadecimal digit in lower case or a hyphen.
HexOrHyphen(c) ==
    c \in {"0", "1", "2", "3", "4", "5", "6", "7", "8", "9",
           "a", "b", "c", "d", "e", "f", "-"}

\* Position p holds an "ID:" label and position q, reached from the label
\* over white space alone, begins a token.
TokenAfterLabel(text, p, q) ==
    /\ p + 2 <= Len(text)
    /\ SubSeq(text, p, p + 2) = "ID:"
    /\ q >= p + 3 /\ q <= Len(text)
    /\ \A k \in (p + 3)..(q - 1) : SubSeq(text, k, k) \in {" ", "\t", "\n"}
    /\ HexOrHyphen(SubSeq(text, q, q))

LabelWithToken(text, p) == \E q \in 1..Len(text) : TokenAfterLabel(text, p, q)

C22_KillOnlyAfterInterrupt ==
    \A i \in 1..Len(sent) :
        sent[i].sig = "SIGKILL" =>
            \E j \in 1..(i - 1) : sent[j].sig = "SIGINT"

\* C23: a call whose child ran and during which a signal was handled by
\* the supervisor's handler ends Interrupted.
C23_NoInterruptLost ==
    (rc = "end" /\ child = "exited" /\ nsignals > entry_signals) =>
        result = "Interrupted"

\* C24: once two signals have been handled in a call while its child was
\* running (and went on running), the child has been sent a kill.
C24_TwoInterruptsKill ==
    (running_hits >= 2 /\ child = "running") => Killed

====
